---- MODULE Spec2Model ----
(***************************************************************************)
(* bevy-fast-tilemap: construction of a tile map (bundle.rs), the per-frame *)
(* systems registered by FastTileMapPlugin (plugin.rs) and the example that *)
(* builds and fills one map (examples/iso_perspective.rs).                  *)
(*                                                                          *)
(* f32 values are exact rationals [n, d]; d = 0 stands for a non-finite     *)
(* value (n = 0: NaN, n = 1: +inf, n = -1: -inf), which is what a division  *)
(* by a zero determinant produces.  All inputs are dyadic and small, so     *)
(* every f32 operation on them is exact.                                    *)
(***************************************************************************)
EXTENDS Integers, Sequences, FiniteSets, TLC

\* ------------------------------------------------------------------ bounds
\* Largest grid dimension of a descriptor (map_size.x, map_size.y in 0..MaxSize).
MaxSize == 2
\* Largest number of get and set calls the user makes, over all edit sessions.
MaxCalls == 2

\* ------------------------------------------------------------ f32 arithmetic
Abs(i) == IF i < 0 THEN -i ELSE i

Sgn(i) == IF i < 0 THEN -1 ELSE IF i > 0 THEN 1 ELSE 0

RECURSIVE Gcd(_, _)
Gcd(a, b) == IF b = 0 THEN a ELSE Gcd(b, a % b)

Rat(n, d) ==
  IF d = 0 THEN [n |-> Sgn(n), d |-> 0]
  ELSE LET g == Gcd(Abs(n), Abs(d))
       IN  [n |-> Sgn(d) * (n \div g), d |-> Abs(d) \div g]

F(i) == [n |-> i, d |-> 1]

RAdd(a, b) ==
  IF a.d = 0 /\ b.d = 0
  THEN (IF a.n = b.n THEN a ELSE [n |-> 0, d |-> 0])
  ELSE Rat(a.n * b.d + b.n * a.d, a.d * b.d)

RNeg(a) == [n |-> -a.n, d |-> a.d]

RSub(a, b) == RAdd(a, RNeg(b))

RMul(a, b) == Rat(a.n * b.n, a.d * b.d)

RRecip(a) == Rat(a.d, a.n)

RDiv(a, b) == RMul(a, RRecip(b))

RLe(a, b) == a.n * b.d <= b.n * a.d

RMin(a, b) == IF RLe(a, b) THEN a ELSE b

RMax(a, b) == IF RLe(a, b) THEN b ELSE a

\* ------------------------------------------------------------ glam Vec2, Mat2
vec2(x, y) == [x |-> x, y |-> y]

VAdd(a, b) == vec2(RAdd(a.x, b.x), RAdd(a.y, b.y))

VSub(a, b) == vec2(RSub(a.x, b.x), RSub(a.y, b.y))

VMul(a, b) == vec2(RMul(a.x, b.x), RMul(a.y, b.y))

VDiv(a, b) == vec2(RDiv(a.x, b.x), RDiv(a.y, b.y))

VMin(a, b) == vec2(RMin(a.x, b.x), RMin(a.y, b.y))

VMax(a, b) == vec2(RMax(a.x, b.x), RMax(a.y, b.y))

mat2(x_axis, y_axis) == [x_axis |-> x_axis, y_axis |-> y_axis]

\* Mat2 * Vec2: x_axis * v.x + y_axis * v.y
MatVec(m, v) ==
  vec2(RAdd(RMul(m.x_axis.x, v.x), RMul(m.y_axis.x, v.y)),
       RAdd(RMul(m.x_axis.y, v.x), RMul(m.y_axis.y, v.y)))

MatMul(a, b) == mat2(MatVec(a, b.x_axis), MatVec(a, b.y_axis))

determinant(m) ==
  RSub(RMul(m.x_axis.x, m.y_axis.y), RMul(m.x_axis.y, m.y_axis.x))

\* glam's Mat2::inverse: inv_det = determinant.recip(), no check in a default build
Mat2Inverse(m) ==
  LET inv_det == RRecip(determinant(m))
  IN  mat2(vec2(RMul(m.y_axis.y, inv_det), RMul(m.x_axis.y, RNeg(inv_det))),
           vec2(RMul(m.y_axis.x, RNeg(inv_det)), RMul(m.x_axis.x, inv_det)))

IDENTITY == mat2(vec2(F(1), F(0)), vec2(F(0), F(1)))

Invertible(m) == determinant(m) # F(0)

\* ------------------------------------------------------------------- state
VARIABLES
  app,        \* "startup" before the Startup schedule has run, then "running"
  entities,   \* entity id -> spawned FastTileMapBundle (with its Map component)
  images,     \* Assets<Image>: handle -> image (width, height, data bytes)
  meshes,     \* Assets<Mesh>: handle -> quad
  atlas,      \* load state of the tiles_texture asset: "loading", "loaded", "failed"
  done,       \* the plugin's Update systems that have run in the current frame
  indexer,    \* the Indexer scope: live flag, set calls, upload signals, last result
  initCalls,  \* number of invocations of the initializer callback
  dirty,      \* the tile-index storage is flagged for upload at the render boundary
  rendered,   \* the map has been drawn in some frame
  query,      \* the last coordinate query and its results
  userCalls   \* get and set calls the user has made so far

vars == <<app, entities, images, meshes, atlas, done, indexer, initCalls,
          dirty, rendered, query, userCalls>>

\* --------------------------------------------------------------- descriptors
\* FastTileMapDescriptor::default().projection
DefaultProjection == mat2(vec2(F(1), F(0)), vec2(F(0), F(-1)))

\* A diamond projection (tiles twice as wide as high with tile_size (256, 128))
Axonometric == mat2(vec2(Rat(1, 2), Rat(-1, 2)), vec2(Rat(1, 2), Rat(1, 2)))

\* A sheared grid (every other row shifted by half a tile)
Sheared == mat2(vec2(F(1), F(0)), vec2(Rat(1, 2), F(1)))

\* A custom invertible matrix with determinant 2
Custom == mat2(vec2(F(2), F(1)), vec2(F(0), F(1)))

InvertibleProjections == {DefaultProjection, IDENTITY, Axonometric, Sheared, Custom}

SingularProjections ==
  { mat2(vec2(F(1), F(1)), vec2(F(1), F(1))),
    mat2(vec2(F(0), F(0)), vec2(F(0), F(0))),
    mat2(vec2(F(1), F(2)), vec2(Rat(1, 2), F(1))) }

ivec2(x, y) == [x |-> x, y |-> y]

MapSizes == {ivec2(x, y) : x \in 0..MaxSize, y \in 0..MaxSize}

TileSizes == {vec2(F(16), F(16)), vec2(F(256), F(128))}

AnchorPoints == {vec2(F(0), F(0)), vec2(Rat(1, 2), Rat(1, 2))}

Descriptor(map_size, tile_size, projection, anchor, transform, initializer) ==
  [map_size |-> map_size, tile_size |-> tile_size, tiles_texture |-> "atlas",
   transform |-> transform, projection |-> projection,
   tile_anchor_point |-> anchor, initializer |-> initializer]

\* Descriptors of the geometry specification: every projection, tile size, anchor.
GeomDescs ==
  { Descriptor(s, t, p, a, 0, "none") :
      s \in MapSizes, t \in TileSizes,
      p \in InvertibleProjections \cup SingularProjections, a \in AnchorPoints }

\* Descriptors of the lifecycle specification: the example's map (tile size
\* (256, 128), axonometric), with or without an initializer, at every grid size.
LifeDescs ==
  { Descriptor(s, vec2(F(256), F(128)), Axonometric, vec2(F(0), F(0)), 5, i) :
      s \in MapSizes, i \in {"none", "init_map"} }

\* ---------------------------------------------------------------- Map queries
\* projection applied to the tile-size-scaled displacement from the anchor point,
\* then world_offset added
map_to_world(map, g) ==
  VAdd(MatVec(map.projection, VMul(VSub(g, map.tile_anchor_point), map.tile_size)),
       map.world_offset)

\* inverse_projection applied to (world - world_offset), brought back to grid units
world_to_map(map, w) ==
  VAdd(VDiv(MatVec(map.inverse_projection, VSub(w, map.world_offset)), map.tile_size),
       map.tile_anchor_point)

fvec2(s) == vec2(F(s.x), F(s.y))

\* ------------------------------------------------- FastTileMapDescriptor::spawn
\* (mutant: one byte per cell)
MapImageData_OneByte(map_size) == [i \in 1..(map_size.x * map_size.y) |-> 0]

\* vec![0u8; (map_size.x * map_size.y) as usize * size_of::<u16>()]
MapImageData(map_size) == [i \in 1..(map_size.x * map_size.y * 2) |-> 0]

\* Image::new(Extent3d { width, height, 1 }, D2, data, R16Uint); the grid sizes
\* drawn here are non-negative, where `as u32` keeps the value.
MapImage(map_size) ==
  [width |-> map_size.x, height |-> map_size.y, data |-> MapImageData(map_size),
   format |-> "R16Uint", mip_level_count |-> 1]

\* (mutant: the projection is stored without inverting it)
InverseProjectionOf_NotInverted(projection) == projection

\* let inverse_projection = projection.inverse();
InverseProjectionOf(projection) == Mat2Inverse(projection)

\* (mutant: the map is constructed ready)
NewMap_Ready(d, map_texture) ==
  [size |-> d.map_size, tile_size |-> d.tile_size, map_texture |-> map_texture,
   tiles_texture |-> d.tiles_texture, ready |-> TRUE,
   projection |-> d.projection,
   inverse_projection |-> Mat2Inverse(d.projection),
   world_offset |-> vec2(F(0), F(0)), tile_anchor_point |-> d.tile_anchor_point]

NewMap(d, map_texture) ==
  [size |-> d.map_size, tile_size |-> d.tile_size, map_texture |-> map_texture,
   tiles_texture |-> d.tiles_texture, ready |-> FALSE,
   projection |-> d.projection,
   inverse_projection |-> InverseProjectionOf(d.projection),
   world_offset |-> vec2(F(0), F(0)), tile_anchor_point |-> d.tile_anchor_point]

\* (mutant: the far corner is left out)
Corners_NoFarCorner(map) ==
  << vec2(F(map.size.x), F(0)), vec2(F(0), F(map.size.y)) >>

\* The three corners the loop visits after (0, 0)
Corners(map) ==
  << vec2(F(map.size.x), F(0)), vec2(F(0), F(map.size.y)),
     vec2(F(map.size.x), F(map.size.y)) >>

RECURSIVE LowAfter(_, _, _)
LowAfter(map, low, i) ==
  IF i > Len(Corners(map)) THEN low
  ELSE LowAfter(map, VMin(low, map_to_world(map, Corners(map)[i])), i + 1)

RECURSIVE HighAfter(_, _, _)
HighAfter(map, high, i) ==
  IF i > Len(Corners(map)) THEN high
  ELSE HighAfter(map, VMax(high, map_to_world(map, Corners(map)[i])), i + 1)

BoundsLow(map) == LowAfter(map, map_to_world(map, vec2(F(0), F(0))), 1)

BoundsHigh(map) == HighAfter(map, map_to_world(map, vec2(F(0), F(0))), 1)

\* (mutant: low is not subtracted)
WorldOffsetOf_NoLow(size, low) == VMul(vec2(Rat(-1, 2), Rat(-1, 2)), size)

\* map.world_offset = vec2(-0.5, -0.5) * size - low
WorldOffsetOf(size, low) == VSub(VMul(vec2(Rat(-1, 2), Rat(-1, 2)), size), low)

NewHandle(assets) ==
  IF DOMAIN assets = {} THEN 1
  ELSE 1 + (CHOOSE h \in DOMAIN assets : \A k \in DOMAIN assets : k <= h)

IdleIndexer ==
  [live |-> FALSE, owner |-> "none", sets |-> 0, signals |-> 0,
   result |-> "none", x |-> 0, y |-> 0, got |-> 0]

NoQuery == [stage |-> "none"]

\* The Startup schedule runs once: one map is constructed and spawned.
Spawn(descs) ==
  /\ app = "startup"
  /\ \E d \in descs :
       LET tex  == NewHandle(images)
           map0 == NewMap(d, tex)
           low  == BoundsLow(map0)
           high == BoundsHigh(map0)
           size == VSub(high, low)
           map  == [map0 EXCEPT !.world_offset = WorldOffsetOf(size, low)]
           mh   == NewHandle(meshes)
       IN  /\ images' = (tex :> MapImage(d.map_size)) @@ images
           /\ meshes' = (mh :> [size |-> size, flip |-> FALSE, mix_color |-> "default"]) @@ meshes
           /\ entities' = (NewHandle(entities) :>
                             [map |-> map, mesh |-> mh, transform |-> d.transform,
                              global_transform |-> 0,
                              initializer |-> d.initializer,
                              attributes |-> "gradient"]) @@ entities
  /\ app' = "running"
  /\ UNCHANGED <<atlas, done, indexer, initCalls, dirty, rendered, query, userCalls>>

\* Destroying the map's entity releases the mesh and the tile-index image it owns.
Despawn ==
  /\ app = "running"
  /\ ~indexer.live
  /\ \E e \in DOMAIN entities :
       /\ entities' = [k \in DOMAIN entities \ {e} |-> entities[k]]
       /\ images' = [h \in DOMAIN images \ {entities[e].map.map_texture} |-> images[h]]
       /\ meshes' = [h \in DOMAIN meshes \ {entities[e].mesh} |-> meshes[h]]
  /\ query' = NoQuery
  /\ UNCHANGED <<app, atlas, done, indexer, initCalls, dirty, rendered, userCalls>>

\* Grid coordinates of the queries: the cell corners, edge midpoints and cell
\* centres of [0, size.x] x [0, size.y]
GridCoords(size) ==
  {vec2(Rat(x, 2), Rat(y, 2)) : x \in 0..(2 * size.x), y \in 0..(2 * size.y)}

QueryMapToWorld ==
  /\ \E e \in DOMAIN entities :
       \E g \in GridCoords(entities[e].map.size) :
         query' = [stage |-> "world", entity |-> e, g |-> g,
                   world |-> map_to_world(entities[e].map, g)]
  /\ UNCHANGED <<app, entities, images, meshes, atlas, done, indexer, initCalls,
                 dirty, rendered, userCalls>>

QueryWorldToMap ==
  /\ query.stage = "world"
  /\ query.entity \in DOMAIN entities
  /\ query' = [stage |-> "back", entity |-> query.entity, g |-> query.g,
               world |-> query.world,
               back |-> world_to_map(entities[query.entity].map, query.world)]
  /\ UNCHANGED <<app, entities, images, meshes, atlas, done, indexer, initCalls,
                 dirty, rendered, userCalls>>

\* ------------------------------------------------------------ Tile Buffer Indexer
\* A tile index is one 16-bit cell, stored as two bytes (low byte first).
CellIndex(img, x, y) == y * img.width + x

InBounds(img, x, y) == x < img.width /\ y < img.height

ReadCell(img, x, y) ==
  img.data[2 * CellIndex(img, x, y) + 1] + 256 * img.data[2 * CellIndex(img, x, y) + 2]

WriteCell(img, x, y, v) ==
  [img EXCEPT !.data = [i \in DOMAIN img.data |->
      IF i = 2 * CellIndex(img, x, y) + 1 THEN v % 256
      ELSE IF i = 2 * CellIndex(img, x, y) + 2 THEN (v \div 256) % 256
      ELSE img.data[i]]]

\* (mutant: no bounds check, the cell index is computed from whatever x and y are)
IndexerSetOp_Unchecked(s, x, y, v) ==
  [img |-> WriteCell(s.img, x, y, v), sets |-> s.sets + 1, result |-> "ok"]

\* set(x, y, index) on a scope s = [img, sets, result]: out-of-range coordinates
\* are reported and leave the storage alone.
IndexerSetOp(s, x, y, v) ==
  IF InBounds(s.img, x, y)
  THEN [img |-> WriteCell(s.img, x, y, v), sets |-> s.sets + 1, result |-> "ok"]
  ELSE [img |-> s.img, sets |-> s.sets, result |-> "OutOfBoundsAccess"]

\* (mutant: one upload per set call)
UploadSignals_PerSet(sets) == sets

\* On release the modifications of the scope are flagged for one upload.
UploadSignals(sets) == IF sets >= 1 THEN 1 ELSE 0

\* rng.gen_range(1..4): the k-th draw of a generator seeded with seed
Seeds == 0..2

gen_range(seed, k) == 1 + ((seed + k) % 3)

\* init_map: for y in 0..size.y { for x in 0..size.x { m.set(x, y, rng.gen_range(1..4)) } }
RECURSIVE init_map_from(_, _, _)
init_map_from(s, seed, k) ==
  IF k >= s.img.width * s.img.height THEN s
  ELSE init_map_from(
         IndexerSetOp(s, k % s.img.width, k \div s.img.width, gen_range(seed, k)),
         seed, k + 1)

init_map(s, seed) == init_map_from(s, seed, 0)

IndexValues == {258}

\* Coordinates of the user's get and set calls: every cell, and one past the range
Coords == 0..MaxSize

\* (configure_loaded_assets, update_loading_maps, log_map_events).chain()
Chain == <<"configure_loaded_assets", "update_loading_maps", "log_map_events">>

\* the systems added to Update without an ordering constraint
Unchained == {"update_map_vertex_attributes", "apply_map_transforms"}

Systems == {Chain[i] : i \in DOMAIN Chain} \cup Unchained

\* A user system opens an edit session.  Its place among the plugin's systems is
\* free; the session touches only the image, so its place matters only relative
\* to update_loading_maps and the render boundary: before the former (no system
\* has run) or between the two (every system has run).
IndexerAcquire ==
  /\ app = "running"
  /\ ~indexer.live
  /\ (done = {} \/ done = Systems)
  /\ userCalls < MaxCalls
  /\ \E e \in DOMAIN entities :
       indexer' = [IdleIndexer EXCEPT !.live = TRUE, !.owner = "user"]
  /\ UNCHANGED <<app, entities, images, meshes, atlas, done, initCalls, dirty,
                 rendered, query, userCalls>>

IndexerSet ==
  /\ indexer.live
  /\ userCalls < MaxCalls
  /\ \E e \in DOMAIN entities, x \in Coords, y \in Coords, v \in IndexValues :
       LET h == entities[e].map.map_texture
           r == IndexerSetOp([img |-> images[h], sets |-> indexer.sets,
                              result |-> indexer.result], x, y, v)
       IN  /\ images' = [images EXCEPT ![h] = r.img]
           /\ indexer' = [indexer EXCEPT !.sets = r.sets, !.result = r.result,
                                         !.x = x, !.y = y, !.got = 0]
  /\ userCalls' = userCalls + 1
  /\ UNCHANGED <<app, entities, meshes, atlas, done, initCalls, dirty, rendered,
                 query>>

IndexerGet ==
  /\ indexer.live
  /\ userCalls < MaxCalls
  /\ \E e \in DOMAIN entities, x \in Coords, y \in Coords :
       LET img == images[entities[e].map.map_texture]
       IN  indexer' = [indexer EXCEPT
                         !.x = x, !.y = y,
                         !.result = IF InBounds(img, x, y) THEN "ok"
                                    ELSE "OutOfBoundsAccess",
                         !.got = IF InBounds(img, x, y) THEN ReadCell(img, x, y)
                                 ELSE 0]
  /\ userCalls' = userCalls + 1
  /\ UNCHANGED <<app, entities, images, meshes, atlas, done, initCalls, dirty,
                 rendered, query>>

IndexerRelease ==
  /\ indexer.live
  /\ indexer' = [indexer EXCEPT !.live = FALSE,
                                !.signals = UploadSignals(indexer.sets),
                                !.result = "none", !.x = 0, !.y = 0, !.got = 0]
  /\ dirty' = (dirty \/ UploadSignals(indexer.sets) >= 1)
  /\ UNCHANGED <<app, entities, images, meshes, atlas, done, initCalls, rendered,
                 query, userCalls>>

\* -------------------------------------------------------------- asset loading
AssetLoaded ==
  /\ app = "running"
  /\ atlas = "loading"
  /\ atlas' = "loaded"
  /\ UNCHANGED <<app, entities, images, meshes, done, indexer, initCalls, dirty,
                 rendered, query, userCalls>>

AssetFailed ==
  /\ app = "running"
  /\ atlas = "loading"
  /\ atlas' = "failed"
  /\ UNCHANGED <<app, entities, images, meshes, done, indexer, initCalls, dirty,
                 rendered, query, userCalls>>

\* ------------------------------------------------- FastTileMapPlugin's systems
\* (mutant: the systems are added without .chain())
ChainBefore_Unordered(s) == {}

\* The systems a chained system waits for: those before it in the chain.
ChainBefore(s) ==
  {Chain[j] : j \in {j \in DOMAIN Chain : \E i \in DOMAIN Chain : Chain[i] = s /\ j < i}}

\* A system runs once per frame, after the systems it is chained behind; systems
\* run one at a time and no Indexer scope spans two systems.
CanRun(s) ==
  /\ app = "running"
  /\ ~indexer.live
  /\ s \notin done
  /\ ChainBefore(s) \subseteq done

configure_loaded_assets ==
  /\ CanRun("configure_loaded_assets")
  /\ done' = done \cup {"configure_loaded_assets"}
  /\ UNCHANGED <<app, entities, images, meshes, atlas, indexer, initCalls, dirty,
                 rendered, query, userCalls>>

\* The one-time finalization of a map whose textures have loaded: the initializer,
\* when present, fills the grid through an Indexer scope; then the map is ready.
Finalized(e, seed) ==
  LET h == entities[e].map.map_texture
      s == IF entities[e].initializer = "init_map"
           THEN init_map([img |-> images[h], sets |-> 0, result |-> "none"], seed)
           ELSE [img |-> images[h], sets |-> 0, result |-> "none"]
  IN  [img |-> s.img,
       invoked |-> IF entities[e].initializer = "init_map" THEN 1 ELSE 0,
       scope |-> [IdleIndexer EXCEPT !.owner = "initializer", !.sets = s.sets,
                                     !.signals = UploadSignals(s.sets)],
       ready |-> TRUE]

\* The per-frame poll: a map that is not ready becomes ready once its textures
\* report loaded; a failed load leaves it not ready.
update_loading_maps ==
  /\ CanRun("update_loading_maps")
  /\ done' = done \cup {"update_loading_maps"}
  /\ IF \E e \in DOMAIN entities : ~entities[e].map.ready /\ atlas = "loaded"
     THEN \E e \in DOMAIN entities, seed \in Seeds :
            LET f == Finalized(e, seed)
            IN  /\ ~entities[e].map.ready
                /\ images' = [images EXCEPT ![entities[e].map.map_texture] = f.img]
                /\ entities' = [entities EXCEPT ![e].map.ready = f.ready]
                /\ initCalls' = initCalls + f.invoked
                /\ indexer' = IF f.invoked = 1 THEN f.scope ELSE indexer
                /\ dirty' = (dirty \/ f.invoked * f.scope.signals >= 1)
     ELSE UNCHANGED <<entities, images, initCalls, indexer, dirty>>
  /\ UNCHANGED <<app, meshes, atlas, rendered, query, userCalls>>

log_map_events ==
  /\ CanRun("log_map_events")
  /\ done' = done \cup {"log_map_events"}
  /\ UNCHANGED <<app, entities, images, meshes, atlas, indexer, initCalls, dirty,
                 rendered, query, userCalls>>

AttributeValues == {"default", "gradient"}

\* Attribute values that changed are copied to the mesh; the tile indices are not
\* touched.
update_map_vertex_attributes ==
  /\ CanRun("update_map_vertex_attributes")
  /\ done' = done \cup {"update_map_vertex_attributes"}
  /\ meshes' = [h \in DOMAIN meshes |->
       IF \E e \in DOMAIN entities :
            entities[e].mesh = h /\ entities[e].attributes # meshes[h].mix_color
       THEN [meshes[h] EXCEPT !.mix_color =
               (CHOOSE a \in AttributeValues :
                  \E e \in DOMAIN entities : entities[e].mesh = h /\ entities[e].attributes = a)]
       ELSE meshes[h]]
  /\ UNCHANGED <<app, entities, images, atlas, indexer, initCalls, dirty, rendered,
                 query, userCalls>>

apply_map_transforms ==
  /\ CanRun("apply_map_transforms")
  /\ done' = done \cup {"apply_map_transforms"}
  /\ entities' = [e \in DOMAIN entities |->
                    [entities[e] EXCEPT !.global_transform = entities[e].transform]]
  /\ UNCHANGED <<app, images, meshes, atlas, indexer, initCalls, dirty, rendered,
                 query, userCalls>>

\* The render boundary at the end of a frame: a ready map is drawn, the flagged
\* modifications are uploaded and the flag is cleared; then the next frame starts.
EndFrame ==
  /\ app = "running"
  /\ ~indexer.live
  /\ done = Systems
  /\ done' = {}
  /\ rendered' = (rendered \/ \E e \in DOMAIN entities : entities[e].map.ready)
  /\ dirty' = FALSE
  /\ UNCHANGED <<app, entities, images, meshes, atlas, indexer, initCalls, query,
                 userCalls>>

Init ==
  /\ app = "startup"
  /\ entities = <<>>
  /\ images = <<>>
  /\ meshes = <<>>
  /\ atlas = "loading"
  /\ done = {}
  /\ indexer = IdleIndexer
  /\ initCalls = 0
  /\ dirty = FALSE
  /\ rendered = FALSE
  /\ query = NoQuery
  /\ userCalls = 0

NextGeom == Spawn(GeomDescs) \/ QueryMapToWorld \/ QueryWorldToMap \/ Despawn

SpecGeom == Init /\ [][NextGeom]_vars

Next ==
  \/ Spawn(LifeDescs)
  \/ Despawn
  \/ AssetLoaded
  \/ AssetFailed
  \/ configure_loaded_assets
  \/ update_loading_maps
  \/ log_map_events
  \/ update_map_vertex_attributes
  \/ apply_map_transforms
  \/ EndFrame
  \/ IndexerAcquire
  \/ IndexerSet
  \/ IndexerGet
  \/ IndexerRelease

Spec == Init /\ [][Next]_vars

\* ------------------------------------------------------------------ claims
MapOf(e) == entities[e].map

Half == vec2(Rat(1, 2), Rat(1, 2))

MinusHalf == vec2(Rat(-1, 2), Rat(-1, 2))

\* C1: after spawn, for every map of size >= 1x1 with an invertible projection, the
\* bounding rectangle of the four projected grid corners, taken with the final
\* world_offset, has min = -0.5 * size_world and max = +0.5 * size_world, where
\* size_world = high - low is the size of the quad mesh.
C1_BoundingBoxCentered ==
  \A e \in DOMAIN entities :
    (MapOf(e).size.x >= 1 /\ MapOf(e).size.y >= 1 /\ Invertible(MapOf(e).projection))
    => LET low        == BoundsLow(MapOf(e))
           high       == BoundsHigh(MapOf(e))
           size_world == meshes[entities[e].mesh].size
       IN  /\ size_world = VSub(high, low)
           /\ low = VMul(MinusHalf, size_world)
           /\ high = VMul(Half, size_world)

C1_Witness ==
  \E e \in DOMAIN entities :
    /\ MapOf(e).size = ivec2(2, 1)
    /\ MapOf(e).projection = Sheared
    /\ MapOf(e).tile_anchor_point = Half
    /\ MapOf(e).tile_size = vec2(F(256), F(128))
    /\ BoundsLow(MapOf(e)) = vec2(F(-288), F(-64))

\* C2: after spawn, map_to_world((0,0)) + map_to_world((size.x, size.y)) = (0, 0),
\* for every size, tile size, anchor point and linear projection.
C2_CornersSymmetric ==
  \A e \in DOMAIN entities :
    VAdd(map_to_world(MapOf(e), vec2(F(0), F(0))),
         map_to_world(MapOf(e), fvec2(MapOf(e).size))) = vec2(F(0), F(0))

C2_Witness ==
  \E e \in DOMAIN entities :
    /\ MapOf(e).size = ivec2(2, 2)
    /\ MapOf(e).projection = Axonometric
    /\ MapOf(e).tile_size = vec2(F(256), F(128))
    /\ MapOf(e).tile_anchor_point = vec2(F(0), F(0))
    /\ map_to_world(MapOf(e), vec2(F(0), F(0))) = vec2(F(-192), F(64))
    /\ map_to_world(MapOf(e), vec2(F(2), F(2))) = vec2(F(192), F(-64))

\* C3: for every map with an invertible projection, projection * inverse_projection
\* is the identity, and a grid coordinate g of [0,size.x] x [0,size.y] taken to the
\* world and back with the final world_offset comes back as g.
C3_RoundTrip ==
  /\ \A e \in DOMAIN entities :
       Invertible(MapOf(e).projection)
       => MatMul(MapOf(e).projection, MapOf(e).inverse_projection) = IDENTITY
  /\ (query.stage = "back" /\ Invertible(MapOf(query.entity).projection))
     => query.back = query.g

C3_Witness ==
  /\ query.stage = "back"
  /\ MapOf(query.entity).projection = Custom
  /\ MapOf(query.entity).tile_anchor_point = Half
  /\ MapOf(query.entity).tile_size = vec2(F(256), F(128))
  /\ query.g = vec2(F(1), F(2))
  /\ query.world # query.g
  /\ query.back = query.g

\* C4: a projection with determinant 0 is rejected at construction: no map exists
\* whose projection is singular or whose inverse_projection is not its inverse.
C4_SingularRejected ==
  \A e \in DOMAIN entities :
    /\ Invertible(MapOf(e).projection)
    /\ MatMul(MapOf(e).projection, MapOf(e).inverse_projection) = IDENTITY

\* C5: zero or negative grid dimensions fail before any allocation: every map has
\* size.x > 0 and size.y > 0, and no image, mesh or entity exists for such a size.
C5_PositiveSize ==
  /\ \A e \in DOMAIN entities : MapOf(e).size.x > 0 /\ MapOf(e).size.y > 0
  /\ \A h \in DOMAIN images : images[h].width > 0 /\ images[h].height > 0

ImageOf(e) == images[MapOf(e).map_texture]

AllZero(data) == \A i \in DOMAIN data : data[i] = 0

\* C6: the tile-index image of a map has width size.x, height size.y and
\* size.x * size.y cells of two bytes each; it is all zero until something is
\* written (the initializer at readiness, or a user's set); and no step of an
\* existing map (Indexer set, readiness transition, attribute sync, transforms,
\* frame end) changes its number of bytes.
C6_StorageSize ==
  [][ /\ \A e \in DOMAIN entities' :
           LET m   == entities'[e].map
               img == images'[m.map_texture]
           IN  /\ img.width = m.size.x
               /\ img.height = m.size.y
               /\ Len(img.data) = m.size.x * m.size.y * 2
               /\ (app = "startup") => AllZero(img.data)
      /\ \A e \in DOMAIN entities \cap DOMAIN entities' :
           Len(images'[entities'[e].map.map_texture].data) = Len(ImageOf(e).data) ]_vars

C6_Witness ==
  \E e \in DOMAIN entities :
    /\ MapOf(e).size = ivec2(2, 2)
    /\ MapOf(e).ready
    /\ meshes[entities[e].mesh].mix_color = "gradient"
    /\ Len(ImageOf(e).data) = 8
    /\ ReadCell(ImageOf(e), 1, 1) = 258
    /\ ReadCell(ImageOf(e), 0, 0) \in 1..3

HasInitializer(e) == entities[e].initializer = "init_map"

JustRan(s) == s \in done' /\ s \notin done

\* C7: a map constructed with an initializer has ready = FALSE and the callback
\* un-invoked right after construction; once the per-frame poll sees the textures
\* loaded, ready = TRUE and the callback has run exactly once; and the count stays
\* one in every later frame.
C7_ReadinessGating ==
  [][ /\ (app = "startup")
         => (initCalls' = 0 /\ \A e \in DOMAIN entities' : ~entities'[e].map.ready)
      /\ \A e \in DOMAIN entities' :
           entities'[e].initializer = "init_map"
           => initCalls' = (IF entities'[e].map.ready THEN 1 ELSE 0)
      /\ (JustRan("update_loading_maps") /\ atlas = "loaded")
         => \A e \in DOMAIN entities : entities'[e].map.ready
      /\ initCalls' >= initCalls
      /\ initCalls' <= 1 ]_vars

C7_Witness ==
  \E e \in DOMAIN entities :
    /\ HasInitializer(e)
    /\ MapOf(e).ready
    /\ initCalls = 1
    /\ rendered
    /\ done = {"configure_loaded_assets", "update_loading_maps"}

Cells(e) == MapOf(e).size.x * MapOf(e).size.y

\* C8: a closed Indexer scope in which N >= 1 set calls wrote cells has flagged
\* exactly one upload; the initializer that sets every cell of the grid is such a
\* scope, with N = size.x * size.y.
C8_SingleUpload ==
  /\ (~indexer.live /\ indexer.sets >= 1) => indexer.signals = 1
  /\ \A e \in DOMAIN entities :
       (indexer.owner = "initializer" /\ Cells(e) >= 1)
       => (indexer.sets = Cells(e) /\ indexer.signals = 1)

C8_Witness ==
  \E e \in DOMAIN entities :
    /\ indexer.owner = "initializer"
    /\ ~indexer.live
    /\ Cells(e) = 4
    /\ indexer.sets = 4
    /\ indexer.signals = 1
    /\ dirty

Outside(size, x, y) == ~(0 <= x /\ x < size.x /\ 0 <= y /\ y < size.y)

\* C9: a get or set at a coordinate outside [0,size.x) x [0,size.y), in particular
\* at x = size.x or y = size.y, reports OutOfBoundsAccess and leaves the tile-index
\* storage as it was; a call inside the range succeeds.
C9_BoundsChecked ==
  [][ (userCalls' = userCalls + 1)
      => \A e \in DOMAIN entities :
           /\ Outside(MapOf(e).size, indexer'.x, indexer'.y)
              => (indexer'.result = "OutOfBoundsAccess" /\ images' = images)
           /\ ~Outside(MapOf(e).size, indexer'.x, indexer'.y)
              => indexer'.result = "ok" ]_vars

C9_Witness ==
  \E e \in DOMAIN entities :
    /\ indexer.live
    /\ MapOf(e).size = ivec2(2, 2)
    /\ indexer.x = 2
    /\ indexer.y = 0
    /\ indexer.result = "OutOfBoundsAccess"
    /\ MapOf(e).ready
    /\ ReadCell(ImageOf(e), 0, 1) \in 1..3

\* C10: the initializer runs only in a step that starts with the map's storage
\* allocated and the map not ready and never drawn, and that ends with the map
\* ready; a map is first drawn only when it is ready (its initializer, if any,
\* has run); the initializer never runs once the map is destroyed; and within a
\* frame update_loading_maps runs after configure_loaded_assets and
\* log_map_events after update_loading_maps.
C10_Ordering ==
  [][ /\ (initCalls' # initCalls)
         => /\ ~rendered /\ ~rendered'
            /\ \E e \in DOMAIN entities :
                 /\ MapOf(e).map_texture \in DOMAIN images
                 /\ Len(ImageOf(e).data) = 2 * Cells(e)
                 /\ ~MapOf(e).ready
                 /\ entities'[e].map.ready
      /\ (rendered' /\ ~rendered)
         => \E e \in DOMAIN entities :
              MapOf(e).ready /\ (HasInitializer(e) => initCalls = 1)
      /\ (DOMAIN entities = {} /\ app = "running") => initCalls' = initCalls
      /\ JustRan("update_loading_maps") => "configure_loaded_assets" \in done
      /\ JustRan("log_map_events") => "update_loading_maps" \in done ]_vars

C10_Witness ==
  \E e \in DOMAIN entities :
    /\ HasInitializer(e)
    /\ initCalls = 1
    /\ rendered
    /\ MapOf(e).ready
    /\ done = {"update_map_vertex_attributes", "configure_loaded_assets"}
====
